---- MODULE Spec2Model ----
(***************************************************************************)
(* Dataset Studio: the recipe registry (datasetConfigs), the navigation    *)
(* shell (App, Sidebar), the form renderer / submitter (Dashboard) and the *)
(* dataset browser with its tabular preview (DatasetsPage, parseCSV).      *)
(*                                                                         *)
(* JavaScript values are records [t, v]: t is the JS type tag and v the    *)
(* text as a sequence of one-character strings (a File is named by v).     *)
(*                                                                         *)
(* A handler that awaits is two actions: up to the await, and from the     *)
(* await on once the request settles. React drops the state updates of a   *)
(* component that was unmounted in between. ev records which handler ran   *)
(* last and the requests it sent; it is read by the properties only.       *)
(***************************************************************************)
EXTENDS Naturals, Sequences, FiniteSets, TLC

VARIABLES
    selectedDataset,  \* App: useState("sft")
    activePage,       \* App: useState("generate")
    formData,         \* Dashboard: useState({}), field name -> value
    loading,          \* Dashboard: useState(false)
    message,          \* Dashboard: useState(null)
    orphans,          \* requests still in flight whose component was unmounted
    datasetType,      \* DatasetsPage: useState("sft")
    datasets,         \* DatasetsPage: useState([])
    datasetsOf,       \* observation: the type whose list response filled datasets
    rowData,          \* DatasetsPage: useState([])
    columnDefs,       \* DatasetsPage: useState([])
    showModal,        \* DatasetsPage: useState(false)
    selectedFile,     \* DatasetsPage: useState("")
    pending,          \* axios requests in flight, as a bag: request -> count
    server,           \* backend: dataset type -> set of stored filenames
    content,          \* backend: the text body served for a stored file
    ev                \* observation: the handler that ran last and what it sent

vars == <<selectedDataset, activePage, formData, loading, message, orphans,
          datasetType, datasets, datasetsOf, rowData, columnDefs, showModal,
          selectedFile, pending, server, content, ev>>

formVars == <<selectedDataset, activePage, formData, loading, message, orphans>>

browserVars == <<datasetType, datasets, datasetsOf, rowData, columnDefs,
                 showModal, selectedFile, pending, server, content>>

-----------------------------------------------------------------------------
(* JavaScript values *)

Undefined == [t |-> "undefined", v |-> <<>>]

Str(s) == [t |-> "string", v |-> s]

File(n) == [t |-> "file", v |-> n]

\* !x of the value x: undefined and the empty string are falsy; a File object
\* and every non-empty string (also "0") are truthy.
Falsy(x) == x.t = "undefined" \/ (x.t = "string" /\ x.v = <<>>)

DigitChars == <<"0", "1", "2", "3", "4", "5", "6", "7", "8", "9">>

DigitVal(c) == (CHOOSE i \in 1..10 : DigitChars[i] = c) - 1

\* Number(s) of a string of decimal digits; Number("") is 0.
RECURSIVE NumberOf(_)
NumberOf(s) ==
    IF s = <<>> THEN 0
    ELSE NumberOf(SubSeq(s, 1, Len(s) - 1)) * 10 + DigitVal(s[Len(s)])

\* String(n) of a non-negative integer: canonical decimal, no leading zeros.
RECURSIVE StringOf(_)
StringOf(n) ==
    IF n < 10 THEN <<DigitChars[n + 1]>>
    ELSE StringOf(n \div 10) \o <<DigitChars[(n % 10) + 1]>>

-----------------------------------------------------------------------------
(* Dataset recipe registry *)

Fld(n, l, ty) == [name |-> n, label |-> l, type |-> ty, options |-> <<>>]

Sel(n, l, opts) == [name |-> n, label |-> l, type |-> "select", options |-> opts]

Languages ==
    << <<"A","r","a","b","i","c">>, <<"A","z","e","r","b","a","i","j","a","n","i">>,
       <<"B","a","s","q","u","e">>, <<"C","a","t","a","l","a","n">>,
       <<"C","h","i","n","e","s","e">>, <<"C","z","e","c","h">>,
       <<"D","a","n","i","s","h">>, <<"D","u","t","c","h">>,
       <<"E","n","g","l","i","s","h">>, <<"E","s","p","e","r","a","n","t","o">>,
       <<"F","i","n","n","i","s","h">>, <<"F","r","e","n","c","h">>,
       <<"G","a","l","i","c","i","a","n">>, <<"G","e","r","m","a","n">>,
       <<"G","r","e","e","k">>, <<"H","e","b","r","e","w">>, <<"H","i","n","d","i">>,
       <<"H","u","n","g","a","r","i","a","n">>,
       <<"I","n","d","o","n","e","s","i","a","n">>, <<"I","r","i","s","h">>,
       <<"I","t","a","l","i","a","n">>, <<"J","a","p","a","n","e","s","e">>,
       <<"K","y","r","g","y","z">>, <<"K","o","r","e","a","n">>, <<"M","a","l","a","y">>,
       <<"P","e","r","s","i","a","n">>, <<"P","o","l","i","s","h">>,
       <<"P","o","r","t","u","g","u","e","s","e">>,
       <<"P","o","r","t","u","g","u","e","s","e"," ","(","B","r","a","z","i","l",")">>,
       <<"R","u","s","s","i","a","n">>, <<"S","l","o","v","a","k">>,
       <<"S","p","a","n","i","s","h">>, <<"S","w","e","d","i","s","h">>,
       <<"T","u","r","k","i","s","h">>, <<"U","k","r","a","i","n","i","a","n">>,
       <<"U","r","d","u">> >>

StyleOptions ==
    << <<"h","i","g","h","l","y"," ","f","r","i","e","n","d","l","y">>,
       <<"b","e","g","i","n","e","e","r"," ","f","r","i","e","n","d","l","y">>,
       <<"p","r","o","b","l","e","m","-","s","o","l","v","i","n","g"," ",
         "o","r","i","e","n","t","e","d">>,
       <<"c","o","n","v","e","r","s","a","t","i","o","n","a","l">> >>

DifficultyOptions ==
    << <<"e","a","s","y">>, <<"m","e","d","i","u","m">>, <<"h","a","r","d">> >>

datasetConfigs ==
    [ sft |->
        [ label |-> "SFT (Instruction Tuning)",
          endpoint |-> "/generate/sft",
          fields |-> <<
            Fld("topic", "Topic", "text"),
            Fld("model", "Model", "text"),
            Sel("style", "Style", StyleOptions),
            Fld("num_pairs", "Number of Pairs", "number"),
            Fld("language", "Language", "text"),
            Fld("temperature", "Temperature", "number"),
            Fld("output_name", "Output Name", "text") >> ],
      nl_sql |->
        [ label |-> "NL -> SQL",
          endpoint |-> "/generate/nl_sql",
          fields |-> <<
            Fld("schema_file", "Schema File (.json)", "file"),
            Fld("model", "Model", "text"),
            Fld("num_samples", "Number of Samples", "number"),
            Fld("output_name", "Output Name", "text") >> ],
      rag_qa |->
        [ label |-> "RAG-QA",
          endpoint |-> "/generate/rag_qa",
          fields |-> <<
            Fld("context_file", "Context File (.txt / .pdf)", "file"),
            Fld("model", "Model", "text"),
            Sel("difficulty", "Difficulty", DifficultyOptions),
            Fld("num_pairs", "Number of QA Pairs", "number"),
            Fld("output_name", "Output Name", "text") >> ],
      classification |->
        [ label |-> "Classification",
          endpoint |-> "/generate/classification",
          fields |-> <<
            Fld("task_description", "Task Description", "textarea"),
            Fld("model", "Model", "text"),
            Fld("num_samples", "Number of Samples", "number"),
            Fld("output_name", "Output Name", "text") >> ],
      text_to_code |->
        [ label |-> "Text -> Code",
          endpoint |-> "/generate/text_to_code",
          fields |-> <<
            Fld("domain", "Domain", "text"),
            Fld("programming_language", "Programming Language", "text"),
            Fld("model", "Model", "text"),
            Fld("num_samples", "Number of Samples", "number"),
            Fld("temperature", "Temperature", "number"),
            Fld("output_name", "Output Name", "text") >> ],
      multilingual |->
        [ label |-> "Multilingual",
          endpoint |-> "/generate/multilingual",
          fields |-> <<
            Fld("topic", "Topic", "text"),
            Sel("source_language", "Source Language", Languages),
            Sel("destination_language", "Target Language", Languages),
            Fld("model", "Generation Model", "text"),
            Fld("num_samples", "Number of Samples", "number"),
            Fld("temperature", "Temperature", "number"),
            Fld("output_name", "Output Name", "text") >> ] ]

\* Object.entries(datasetConfigs): the recipe keys, one sidebar button each.
RecipeKeys == DOMAIN datasetConfigs

\* Every key formData can hold: the field names of all recipes.
FieldNames ==
    UNION { { datasetConfigs[k].fields[i].name :
                i \in 1..Len(datasetConfigs[k].fields) } : k \in RecipeKeys }

-----------------------------------------------------------------------------
(* Bounds and input sets *)

\* Requests of unmounted components that may still be in flight.
MaxOrphans == 1

\* Entries formData may hold while recipes are switched under a mounted form.
MaxKeys == 2

\* Requests of the mounted DatasetsPage that may be in flight together.
MaxPending == 2

\* Longest text payload served for a file, in characters.
MaxLen == 4

\* What the user types into a text input or a textarea (e.target.value).
TextInputs == { <<>>, <<"g", "p", "t">> }

\* What a number input delivers: "" when cleared, else decimal digits.
NumberInputs == { <<>>, <<"5">>, <<"0", "5">> }

\* e.target.files[0]: a File, or undefined when the picker is emptied.
FileInputs == { Undefined, File(<<"s", ".", "j", "s", "o", "n">>) }

\* The values the control of field f can hand to handleChange.
InputsOf(f) ==
    CASE f.type = "file" -> FileInputs
      [] f.type = "select" ->
            { Str(f.options[i]) : i \in {1, Len(f.options)} }
      [] f.type = "number" -> { Str(s) : s \in NumberInputs }
      [] OTHER -> { Str(s) : s \in TextInputs }

-----------------------------------------------------------------------------
(* Requests and responses *)

Req(m, k, ty, f) == [method |-> m, kind |-> k, type |-> ty, file |-> f]

\* GET ${BASE_URL}/datasets?dataset_type=${datasetType}
ListReq(ty) == Req("GET", "list", ty, "")

\* GET ${BASE_URL}/datasets/${datasetType}/${filename}
FileReq(ty, f) == Req("GET", "file", ty, f)

\* DELETE ${BASE_URL}/datasets/${datasetType}/${filename}
DeleteReq(ty, f) == Req("DELETE", "file", ty, f)

\* POST ${API_BASE}${config.endpoint}, as the in-flight request of a recipe.
PostReq(k) == Req("POST", "generate", k, "")

BagAdd(b, r) ==
    IF r \in DOMAIN b THEN [b EXCEPT ![r] = @ + 1]
    ELSE [x \in DOMAIN b \cup {r} |-> IF x = r THEN 1 ELSE b[x]]

BagRemove(b, r) ==
    IF b[r] > 1 THEN [b EXCEPT ![r] = @ - 1]
    ELSE [x \in DOMAIN b \ {r} |-> b[x]]

RECURSIVE BagSize(_)
BagSize(b) ==
    IF DOMAIN b = {} THEN 0
    ELSE LET r == CHOOSE x \in DOMAIN b : TRUE
         IN b[r] + BagSize([x \in DOMAIN b \ {r} |-> b[x]])

RECURSIVE BagUnion(_, _)
BagUnion(a, b) ==
    IF DOMAIN b = {} THEN a
    ELSE LET r == CHOOSE x \in DOMAIN b : TRUE
         IN BagUnion([y \in DOMAIN a \cup {r} |->
                        IF y = r THEN (IF r \in DOMAIN a THEN a[r] ELSE 0) + b[r]
                        ELSE a[y]],
                     [x \in DOMAIN b \ {r} |-> b[x]])

NoRequests == [x \in {} |-> 0]

\* What the fetch of handleSubmit can end in: an HTTP response with a JSON body
\* {message} or {detail}, a response whose body is not JSON, or no response.
Response(n, o, j, m, d) ==
    [network |-> n, ok |-> o, json |-> j, message |-> m, detail |-> d]

Responses ==
    { Response(TRUE, TRUE, TRUE, "Dataset generated", ""),
      Response(TRUE, FALSE, TRUE, "", "Invalid model"),
      Response(TRUE, FALSE, TRUE, "", ""),
      Response(TRUE, FALSE, FALSE, "", ""),
      Response(FALSE, FALSE, FALSE, "", "") }

\* error.message of the TypeError a failed fetch rejects with.
NetworkErrorText == "Failed to fetch"

\* error.message of the SyntaxError response.json() rejects with.
JsonErrorText == "Unexpected token < in JSON at position 0"

-----------------------------------------------------------------------------
(* Component state at mount *)

Null == [type |-> "null", text |-> ""]

Msg(ty, tx) == [type |-> ty, text |-> tx]

EmptyForm == [n \in FieldNames |-> Undefined]

\* Dashboard's useState initial values.
DashboardMounted ==
    /\ formData' = EmptyForm
    /\ loading' = FALSE
    /\ message' = Null

NoEvent == [op |-> "none", sent |-> <<>>]

Event(o, s) == [op |-> o, sent |-> s]

-----------------------------------------------------------------------------
(* Backend state the browser reads *)

\* The option values of the dataset type selector.
DatasetTypes ==
    {"sft", "nl_sql", "rag_qa", "classification", "text_to_code", "multilingual"}

\* The types the modelled user picks in the selector: the buckets that hold
\* files.
TypeChoices == {"sft", "nl_sql"}

\* The order in which the backend lists filenames.
FileOrder == <<"a.csv", "b.csv">>

Listing(files) == SelectSeq(FileOrder, LAMBDA f : f \in files)

\* The files stored when the console is opened.
InitServer ==
    [ty \in DatasetTypes |->
        CASE ty = "sft" -> {"a.csv", "b.csv"}
          [] ty = "nl_sql" -> {"a.csv"}
          [] OTHER -> {}]

\* The example payload "a,b\n1,2\n3".
ExamplePayload == <<"a", ",", "b", "\n", "1", ",", "2", "\n", "3">>

\* DatasetsPage's useState initial values; pending gets the given requests.
DatasetsPageState(reqs) ==
    /\ datasetType' = "sft"
    /\ datasets' = <<>>
    /\ datasetsOf' = "none"
    /\ rowData' = <<>>
    /\ columnDefs' = <<>>
    /\ showModal' = FALSE
    /\ selectedFile' = ""
    /\ pending' = reqs

-----------------------------------------------------------------------------
(* Sidebar *)

\* onClick of a recipe button: setSelectedDataset(key); setActivePage("generate").
\* Dashboard keeps its state while it stays rendered; coming from the datasets
\* page a new Dashboard is mounted and DatasetsPage is unmounted with its
\* requests still in flight.
SelectRecipe(key) ==
    /\ ~(activePage = "generate" /\ selectedDataset = key)
    /\ BagSize(orphans) + BagSize(pending) <= MaxOrphans
    /\ selectedDataset' = key
    /\ activePage' = "generate"
    /\ IF activePage = "datasets"
       THEN /\ DashboardMounted
            /\ DatasetsPageState(NoRequests)
            /\ orphans' = BagUnion(orphans, pending)
       ELSE UNCHANGED <<formData, loading, message, orphans, datasetType,
                        datasets, datasetsOf, rowData, columnDefs, showModal,
                        selectedFile, pending>>
    /\ ev' = Event("SelectRecipe", <<>>)
    /\ UNCHANGED <<server, content>>

\* onClick of "View Datasets": setActivePage("datasets"). Dashboard is unmounted
\* (a POST it awaits stays in flight) and DatasetsPage is mounted; its effect
\* runs fetchDatasets for the initial type.
ViewDatasets ==
    /\ activePage = "generate"
    /\ BagSize(orphans) + (IF loading THEN 1 ELSE 0) <= MaxOrphans
    /\ activePage' = "datasets"
    /\ DashboardMounted
    /\ orphans' = IF loading THEN BagAdd(orphans, PostReq(selectedDataset))
                  ELSE orphans
    /\ DatasetsPageState(BagAdd(NoRequests, ListReq("sft")))
    /\ ev' = Event("ViewDatasets", <<ListReq("sft")>>)
    /\ UNCHANGED <<selectedDataset, server, content>>

-----------------------------------------------------------------------------
(* Dashboard *)

config == datasetConfigs[selectedDataset]

\* handleChange(e, field): setFormData({...formData, [field.name]: value}).
handleChange(field, value) ==
    /\ activePage = "generate"
    /\ formData' = [formData EXCEPT ![field.name] = value]
    /\ ev' = Event("handleChange", <<>>)
    /\ UNCHANGED <<selectedDataset, activePage, loading, message, orphans>>
    /\ UNCHANGED browserVars

\* The option a <select> of the form displays. The element is rendered with no
\* value of its own: it shows its first <option> until the user picks another,
\* and only a pick runs handleChange.
SelectShown(field) ==
    IF formData[field.name] = Undefined THEN Str(field.options[1])
    ELSE formData[field.name]

\* AppendEntry, had every field of type number been converted.
AppendEntryAllNumbers(field, value) ==
    [name |-> field.name,
     value |-> IF field.type = "number" THEN Str(StringOf(NumberOf(value.v)))
               ELSE value]

\* form.append(field.name, ...): the value of "num_pairs" goes through Number,
\* and FormData stores a number as its decimal string.
AppendEntry(field, value) ==
    [name |-> field.name,
     value |-> IF field.name = "num_pairs" THEN Str(StringOf(NumberOf(value.v)))
               ELSE value]

\* BuildForm, had the loop run on after a missing field and reported the last.
RECURSIVE BuildFormLastMissing(_, _, _, _)
BuildFormLastMissing(fields, data, i, form) ==
    IF i > Len(fields) THEN [thrown |-> FALSE, error |-> "", form |-> form]
    ELSE LET rest == BuildFormLastMissing(fields, data, i + 1,
                        Append(form, AppendEntry(fields[i], data[fields[i].name])))
         IN IF rest.thrown \/ ~Falsy(data[fields[i].name]) THEN rest
            ELSE [thrown |-> TRUE,
                  error |-> fields[i].label \o " is required",
                  form |-> form]

\* config.fields.forEach(...) from field i on: throws at the first field whose
\* value is falsy, else appends the field's entry to the form.
RECURSIVE BuildForm(_, _, _, _)
BuildForm(fields, data, i, form) ==
    IF i > Len(fields) THEN [thrown |-> FALSE, error |-> "", form |-> form]
    ELSE IF Falsy(data[fields[i].name])
         THEN [thrown |-> TRUE,
               error |-> fields[i].label \o " is required",
               form |-> form]
         ELSE BuildForm(fields, data, i + 1,
                        Append(form, AppendEntry(fields[i], data[fields[i].name])))

PostOf(cfg, form) == [method |-> "POST", url |-> cfg.endpoint, body |-> form]

\* Awaiting, had setMessage(null) been left out.
AwaitingKeepMessage == loading' = TRUE /\ message' = message

\* The state handleSubmit leaves when it suspends at the fetch, after
\* setLoading(true) and setMessage(null).
Awaiting == loading' = TRUE /\ message' = Null

\* handleSubmit up to its first await. The button is disabled while loading.
\* A validation error is thrown and caught before anything is awaited, so the
\* handler's state updates land together: the error message, loading false.
handleSubmit ==
    /\ activePage = "generate"
    /\ ~loading
    /\ LET built == BuildForm(config.fields, formData, 1, <<>>)
       IN IF built.thrown
          THEN /\ loading' = FALSE
               /\ message' = Msg("error", built.error)
               /\ ev' = Event("handleSubmit", <<>>)
          ELSE /\ Awaiting
               /\ ev' = Event("handleSubmit", <<PostOf(config, built.form)>>)
    /\ UNCHANGED <<selectedDataset, activePage, formData, orphans>>
    /\ UNCHANGED browserVars

\* The outcome handleSubmit retains for the way its fetch ended.
OutcomeOf(resp) ==
    IF ~resp.network THEN Msg("error", NetworkErrorText)
    ELSE IF ~resp.json THEN Msg("error", JsonErrorText)
    ELSE IF ~resp.ok
         THEN Msg("error", IF resp.detail # "" THEN resp.detail ELSE "Backend error")
         ELSE Msg("success", resp.message)

\* handleSubmit from its await on: the fetch of the mounted Dashboard settles.
SubmitSettle(resp) ==
    /\ activePage = "generate"
    /\ loading
    /\ message' = OutcomeOf(resp)
    /\ loading' = FALSE
    /\ ev' = [op |-> "SubmitSettle", sent |-> <<>>, resp |-> resp]
    /\ UNCHANGED <<selectedDataset, activePage, formData, orphans>>
    /\ UNCHANGED browserVars


\* A fetch of an unmounted component settles: its state updates are dropped.
\* A DELETE that succeeded still runs fetchDatasets() of its closure.
OrphanSettle(req, ok) ==
    /\ req \in DOMAIN orphans
    /\ IF ok /\ req.method = "DELETE"
       THEN /\ req.file \in server[req.type]
            /\ server' = [server EXCEPT ![req.type] = @ \ {req.file}]
            /\ orphans' = BagAdd(BagRemove(orphans, req), ListReq(req.type))
            /\ ev' = Event("OrphanSettle", <<ListReq(req.type)>>)
       ELSE /\ orphans' = BagRemove(orphans, req)
            /\ ev' = Event("OrphanSettle", <<>>)
            /\ UNCHANGED server
    /\ UNCHANGED <<selectedDataset, activePage, formData, loading, message>>
    /\ UNCHANGED <<datasetType, datasets, datasetsOf, rowData, columnDefs,
                   showModal, selectedFile, pending, content>>

-----------------------------------------------------------------------------
(* Tabular preview: parseCSV *)

Whitespace == {" ", "\n", "\t", "\r"}

\* String.prototype.trim: leading and trailing whitespace removed.
RECURSIVE Trim(_)
Trim(s) ==
    IF s # <<>> /\ s[1] \in Whitespace THEN Trim(Tail(s))
    ELSE IF s # <<>> /\ s[Len(s)] \in Whitespace THEN Trim(SubSeq(s, 1, Len(s) - 1))
    ELSE s

\* String.prototype.split(sep) for a one-character separator: the pieces
\* between separators, empty pieces included; "" splits into [""].
RECURSIVE SplitFrom(_, _, _, _)
SplitFrom(s, sep, i, piece) ==
    IF i > Len(s) THEN <<piece>>
    ELSE IF s[i] = sep THEN <<piece>> \o SplitFrom(s, sep, i + 1, <<>>)
    ELSE SplitFrom(s, sep, i + 1, Append(piece, s[i]))

Split(s, sep) == SplitFrom(s, sep, 1, <<>>)

\* csvText.trim().split("\n").map((row) => row.split(","))
CsvRows(csvText) ==
    LET lines == Split(Trim(csvText), "\n")
    IN [i \in 1..Len(lines) |-> Split(lines[i], ",")]

\* row[i] || "": a missing or empty field reads as "".
CellAt(row, i) == IF i <= Len(row) THEN row[i] ELSE <<>>

\* headers.forEach((header, i) => { obj[header] = row[i] || "" }) from i on.
RECURSIVE FillObj(_, _, _, _)
FillObj(headers, row, i, obj) ==
    IF i > Len(headers) THEN obj
    ELSE FillObj(headers, row, i + 1,
                 [h \in DOMAIN obj \cup {headers[i]} |->
                    IF h = headers[i] THEN CellAt(row, i) ELSE obj[h]])

EmptyObj == [h \in {} |-> <<>>]

\* The column definitions and rows parseCSV hands to the grid.
ParsedColumns(csvText) ==
    LET headers == CsvRows(csvText)[1]
    IN [i \in 1..Len(headers) |-> [headerName |-> headers[i], field |-> headers[i]]]

ParsedRows(csvText) ==
    LET rows == CsvRows(csvText)
        headers == rows[1]
        dataRows == Tail(rows)
    IN [r \in 1..Len(dataRows) |-> FillObj(headers, dataRows[r], 1, EmptyObj)]

\* parseCSV(csvText): rows always holds at least one row, so the early return
\* of `if (!rows.length) return` is never taken.
parseCSV(csvText) ==
    IF Len(CsvRows(csvText)) = 0
    THEN UNCHANGED <<columnDefs, rowData>>
    ELSE /\ columnDefs' = ParsedColumns(csvText)
         /\ rowData' = ParsedRows(csvText)

-----------------------------------------------------------------------------
(* DatasetsPage *)

\* fetchDatasets() of the render whose datasetType is ty: the GET is sent now,
\* setDatasets runs when it resolves.
fetchDatasets(ty) == ListReq(ty)

\* onChange of the type selector: setDatasetType(value); the effect on
\* [datasetType] then runs fetchDatasets of the new render.
setDatasetType(ty) ==
    /\ activePage = "datasets"
    /\ ty # datasetType
    /\ BagSize(pending) < MaxPending
    /\ datasetType' = ty
    /\ pending' = BagAdd(pending, fetchDatasets(ty))
    /\ ev' = Event("setDatasetType", <<fetchDatasets(ty)>>)
    /\ UNCHANGED <<datasets, datasetsOf, rowData, columnDefs, showModal,
                   selectedFile, server, content>>
    /\ UNCHANGED formVars

\* The list GET resolves: setDatasets(res.data.datasets). A rejected GET is not
\* caught and changes nothing.
FetchDatasetsSettle(req, ok) ==
    /\ activePage = "datasets"
    /\ req \in DOMAIN pending
    /\ req.kind = "list"
    /\ pending' = BagRemove(pending, req)
    /\ IF ok
       THEN /\ datasets' = Listing(server[req.type])
            /\ datasetsOf' = req.type
       ELSE UNCHANGED <<datasets, datasetsOf>>
    /\ ev' = Event("FetchDatasetsSettle", <<>>)
    /\ UNCHANGED <<datasetType, rowData, columnDefs, showModal, selectedFile,
                   server, content>>
    /\ UNCHANGED formVars

\* onClick of View on a displayed entry: fetchCSV(file) up to its await.
fetchCSV(file) ==
    /\ activePage = "datasets"
    /\ BagSize(pending) < MaxPending
    /\ pending' = BagAdd(pending, FileReq(datasetType, file))
    /\ ev' = Event("fetchCSV", <<FileReq(datasetType, file)>>)
    /\ UNCHANGED <<datasetType, datasets, datasetsOf, rowData, columnDefs,
                   showModal, selectedFile, server, content>>
    /\ UNCHANGED formVars

\* fetchCSV from its await on: parseCSV(res.data); setSelectedFile(filename);
\* setShowModal(true). The GET of a file the bucket does not hold is rejected.
FetchCSVSettle(req, ok) ==
    /\ activePage = "datasets"
    /\ req \in DOMAIN pending
    /\ req.method = "GET" /\ req.kind = "file"
    /\ pending' = BagRemove(pending, req)
    /\ IF ok
       THEN /\ req.file \in server[req.type]
            /\ parseCSV(content)
            /\ selectedFile' = req.file
            /\ showModal' = TRUE
       ELSE UNCHANGED <<rowData, columnDefs, selectedFile, showModal>>
    /\ ev' = Event("FetchCSVSettle", <<>>)
    /\ UNCHANGED <<datasetType, datasets, datasetsOf, server, content>>
    /\ UNCHANGED formVars

\* onClick of View Fullscreen: window.open of the file's URL in a new tab.
openFullScreen(file) ==
    /\ activePage = "datasets"
    /\ ev' = Event("openFullScreen", <<FileReq(datasetType, file)>>)
    /\ UNCHANGED browserVars
    /\ UNCHANGED formVars

\* onClick of Delete on a displayed entry: deleteDataset(file) up to its await.
deleteDataset(file) ==
    /\ activePage = "datasets"
    /\ BagSize(pending) < MaxPending
    /\ pending' = BagAdd(pending, DeleteReq(datasetType, file))
    /\ ev' = Event("deleteDataset", <<DeleteReq(datasetType, file)>>)
    /\ UNCHANGED <<datasetType, datasets, datasetsOf, rowData, columnDefs,
                   showModal, selectedFile, server, content>>
    /\ UNCHANGED formVars

\* deleteDataset from its await on: the fetchDatasets() it calls is the one of
\* the render the click happened in, whose datasetType is the request's.
RefetchAfterDelete(req) == fetchDatasets(req.type)

\* The DELETE resolves (the file is gone from the bucket) or is rejected (no
\* catch: nothing follows).
DeleteSettle(req, ok) ==
    /\ activePage = "datasets"
    /\ req \in DOMAIN pending
    /\ req.method = "DELETE"
    /\ IF ok
       THEN /\ req.file \in server[req.type]
            /\ server' = [server EXCEPT ![req.type] = @ \ {req.file}]
            /\ pending' = BagAdd(BagRemove(pending, req), RefetchAfterDelete(req))
            /\ ev' = Event("DeleteSettle", <<RefetchAfterDelete(req)>>)
       ELSE /\ pending' = BagRemove(pending, req)
            /\ ev' = Event("DeleteSettle", <<>>)
            /\ UNCHANGED server
    /\ UNCHANGED <<datasetType, datasets, datasetsOf, rowData, columnDefs,
                   showModal, selectedFile, content>>
    /\ UNCHANGED formVars

\* onClick of the modal's close button: setShowModal(false).
CloseModal ==
    /\ activePage = "datasets"
    /\ showModal
    /\ showModal' = FALSE
    /\ ev' = Event("CloseModal", <<>>)
    /\ UNCHANGED <<datasetType, datasets, datasetsOf, rowData, columnDefs,
                   selectedFile, pending, server, content>>
    /\ UNCHANGED formVars

\* The entries the list renders, one row of buttons each.
Displayed == { datasets[i] : i \in 1..Len(datasets) }

-----------------------------------------------------------------------------
(* Specifications *)

InitApp ==
    /\ selectedDataset = "sft"
    /\ activePage = "generate"
    /\ formData = EmptyForm
    /\ loading = FALSE
    /\ message = Null
    /\ orphans = NoRequests
    /\ datasetType = "sft"
    /\ datasets = <<>>
    /\ datasetsOf = "none"
    /\ rowData = <<>>
    /\ columnDefs = <<>>
    /\ showModal = FALSE
    /\ selectedFile = ""
    /\ pending = NoRequests
    /\ server = InitServer
    /\ ev = NoEvent

Init == InitApp /\ content = ExamplePayload

\* The keys formData holds.
Keys(data) == { n \in DOMAIN data : data[n] # Undefined }

UseSidebar ==
    \/ \E key \in RecipeKeys : SelectRecipe(key)
    \/ ViewDatasets

EditForm ==
    \E i \in 1..Len(config.fields) :
       \E value \in InputsOf(config.fields[i]) :
          handleChange(config.fields[i], value)

SubmitForm ==
    \/ handleSubmit
    \/ \E resp \in Responses : SubmitSettle(resp)

UseBrowser ==
    \/ \E ty \in TypeChoices : setDatasetType(ty)
    \/ \E file \in Displayed : fetchCSV(file)
    \/ \E file \in Displayed : openFullScreen(file)
    \/ \E file \in Displayed : deleteDataset(file)
    \/ CloseModal

Network ==
    \/ \E req \in DOMAIN pending, ok \in BOOLEAN : FetchDatasetsSettle(req, ok)
    \/ \E req \in DOMAIN pending, ok \in BOOLEAN : FetchCSVSettle(req, ok)
    \/ \E req \in DOMAIN pending, ok \in BOOLEAN : DeleteSettle(req, ok)
    \/ \E req \in DOMAIN orphans, ok \in BOOLEAN : OrphanSettle(req, ok)

\* The navigation shell with the form under it: recipes are switched freely
\* under a mounted form, which is bounded to MaxKeys entries. No recipe's form
\* is complete with that few, so every submit here ends in validation and no
\* POST is in flight; the browser is opened and left, never operated.
Next ==
    \/ UseSidebar
    \/ EditForm /\ Cardinality(Keys(formData')) <= MaxKeys
    \/ handleSubmit
    \/ \E req \in DOMAIN pending, ok \in BOOLEAN : FetchDatasetsSettle(req, ok)
    \/ \E req \in DOMAIN orphans, ok \in BOOLEAN : OrphanSettle(req, ok)

Spec == Init /\ [][Next]_vars

\* The generate page, with forms of any size: a recipe is opened from the
\* datasets page, which mounts a new form. handleSubmit reads only the entries
\* of the selected recipe's fields, and every assignment of input values to
\* those is reached here.
NextForm ==
    \/ \E key \in RecipeKeys : activePage = "datasets" /\ SelectRecipe(key)
    \/ ViewDatasets
    \/ EditForm
    \/ SubmitForm
    \/ \E req \in DOMAIN pending, ok \in BOOLEAN : FetchDatasetsSettle(req, ok)
    \/ \E req \in DOMAIN orphans, ok \in BOOLEAN : OrphanSettle(req, ok)

SpecForm == Init /\ [][NextForm]_vars

\* The datasets page in use: the user opens it, operates it, and may leave it
\* for the form they came from while requests are in flight.
NextBrowser ==
    \/ ViewDatasets
    \/ SelectRecipe(selectedDataset)
    \/ UseBrowser
    \/ Network

SpecBrowser == Init /\ [][NextBrowser]_vars

\* The characters of the payloads the preview is checked on.
Chars == {"a", "b", ",", "\n", " "}

Payloads ==
    {ExamplePayload} \cup UNION { [1..n -> Chars] : n \in 0..MaxLen }

\* The preview of one file, for every payload the backend may serve for it.
InitCSV == InitApp /\ content \in Payloads

NextCSV ==
    \/ ViewDatasets
    \/ \E req \in DOMAIN pending : FetchDatasetsSettle(req, TRUE)
    \/ \E file \in Displayed : fetchCSV(file)
    \/ \E req \in DOMAIN pending : FetchCSVSettle(req, TRUE)
    \/ CloseModal

SpecCSV == InitCSV /\ [][NextCSV]_vars

-----------------------------------------------------------------------------
(* Claims *)

fieldsNow == datasetConfigs[selectedDataset].fields

\* A field value is absent: never entered, or entered and emptied.
Absent(x) == x = Undefined \/ x = Str(<<>>)

AbsentAt(i) == Absent(formData[fieldsNow[i].name])

SomeAbsent == \E i \in 1..Len(fieldsNow) : AbsentAt(i)

FirstAbsent ==
    CHOOSE i \in 1..Len(fieldsNow) :
        AbsentAt(i) /\ \A j \in 1..(i - 1) : ~AbsentAt(j)

\* C1: when handleSubmit runs with at least one field of the recipe absent, the
\* attempt ends in the Failure "<label> is required" of the first absent field
\* in declaration order, and no request is sent.
C1_ValidationFailsFast ==
    (ev.op = "handleSubmit" /\ SomeAbsent) =>
        /\ ev.sent = <<>>
        /\ ~loading
        /\ message = Msg("error", fieldsNow[FirstAbsent].label \o " is required")

\* Two fields are absent and the earlier one, not the recipe's first field, is named.
C1_Witness ==
    /\ ev.op = "handleSubmit"
    /\ selectedDataset = "sft"
    /\ ~Absent(formData["topic"]) /\ ~Absent(formData["model"])
    /\ Absent(formData["style"]) /\ Absent(formData["output_name"])
    /\ message = Msg("error", "Style is required")

\* The decimal digits of a number, with no leading zero.
CanonicalDigits(s) ==
    /\ s # <<>>
    /\ \A i \in 1..Len(s) : \E d \in 1..10 : DigitChars[d] = s[i]
    /\ (Len(s) = 1 \/ s[1] # "0")

\* C2: a submit with every field populated sends exactly one POST to the
\* recipe's endpoint, whose body has one entry per field descriptor, in
\* declaration order and keyed by the field name; the entry of "num_pairs" is
\* the entered value converted to a number, every other entry is as entered.
C2_OneEntryPerField ==
    (ev.op = "handleSubmit" /\ ~SomeAbsent) =>
        /\ Len(ev.sent) = 1
        /\ ev.sent[1].method = "POST"
        /\ ev.sent[1].url = datasetConfigs[selectedDataset].endpoint
        /\ Len(ev.sent[1].body) = Len(fieldsNow)
        /\ \A i \in 1..Len(fieldsNow) :
              LET entry == ev.sent[1].body[i]
                  entered == formData[fieldsNow[i].name]
              IN /\ entry.name = fieldsNow[i].name
                 /\ IF fieldsNow[i].name = "num_pairs"
                    THEN /\ entry.value.t = "string"
                         /\ CanonicalDigits(entry.value.v)
                         /\ NumberOf(entry.value.v) = NumberOf(entered.v)
                    ELSE entry.value = entered

\* The SFT form is complete, with "05" entered for the pairs and the temperature.
C2_Witness ==
    /\ ev.op = "handleSubmit"
    /\ selectedDataset = "sft"
    /\ ~SomeAbsent
    /\ formData["num_pairs"] = Str(<<"0", "5">>)
    /\ formData["temperature"] = Str(<<"0", "5">>)
    /\ Len(ev.sent) = 1

\* The outcome of a settled fetch, case by case.
SettledOutcome(resp) ==
    CASE ~resp.network -> Msg("error", NetworkErrorText)
      [] resp.network /\ ~resp.json -> Msg("error", JsonErrorText)
      [] resp.network /\ resp.json /\ resp.ok -> Msg("success", resp.message)
      [] resp.network /\ resp.json /\ ~resp.ok /\ resp.detail # "" ->
            Msg("error", resp.detail)
      [] OTHER -> Msg("error", "Backend error")

C3_State ==
    /\ loading => message = Null
    /\ (ev.op = "handleSubmit" /\ ev.sent # <<>>) => (loading /\ message = Null)
    /\ (ev.op = "handleSubmit" /\ ev.sent = <<>>) =>
          (~loading /\ SomeAbsent
           /\ message = Msg("error", fieldsNow[FirstAbsent].label \o " is required"))
    /\ ev.op = "SubmitSettle" => (~loading /\ message = SettledOutcome(ev.resp))

C3_Step ==
    message' # message => ev'.op \in {"handleSubmit", "SubmitSettle", "ViewDatasets"}

\* C3 (amended): the retained outcome is that of the most recent attempt of the
\* mounted form. It is empty from the start of an attempt that sent its request
\* until that request settles. A settled attempt leaves: the Failure "<label> is
\* required" when validation failed; Success with the backend's message for a
\* JSON response with a success status; Failure with the backend's detail, or
\* "Backend error", for a JSON response with another status; Failure with the
\* thrown error's own message when the request got no response or the body was
\* not JSON. Nothing but a submit, its settling or leaving the page changes it.
C3_OutcomeOfLastAttempt == [](C3_State) /\ [][C3_Step]_vars

\* A request that got no response settled into the fetch error's message.
C3_Witness ==
    /\ ev.op = "SubmitSettle"
    /\ ~ev.resp.network
    /\ message = Msg("error", NetworkErrorText)

\* C3 as claimed: once an attempt's request settles, the outcome is Success
\* with the backend's message if the HTTP status was a success, and otherwise
\* Failure with the backend's detail or "Backend error".
C3_AsClaimed ==
    ev.op = "SubmitSettle" =>
        message = IF ev.resp.network /\ ev.resp.ok
                  THEN Msg("success", ev.resp.message)
                  ELSE Msg("error", IF ev.resp.detail # "" THEN ev.resp.detail
                                    ELSE "Backend error")


\* The preview that is on screen was parsed from the payload the backend serves.
PreviewShown == ev.op = "FetchCSVSettle" /\ showModal

\* The lines of a payload and their comma-separated fields.
LinesOf(text) == Split(Trim(text), "\n")

FieldsOf(line) == Split(line, ",")

\* C4: for a payload with a header line, the columns are the header's fields
\* in order (duplicates kept), there is one row per remaining line in order,
\* and the cell shown for the column at position i is the i-th field of the
\* line, or the empty string when the line has fewer fields; fields beyond the
\* header's length are dropped.
C4_AsClaimed ==
    (PreviewShown /\ Trim(content) # <<>>) =>
        LET lines == LinesOf(content)
            header == FieldsOf(lines[1])
        IN /\ Len(columnDefs) = Len(header)
           /\ \A i \in 1..Len(header) : columnDefs[i].headerName = header[i]
           /\ Len(rowData) = Len(lines) - 1
           /\ \A r \in 1..Len(rowData) : \A i \in 1..Len(header) :
                 LET fields == FieldsOf(lines[r + 1])
                 IN rowData[r][columnDefs[i].field] =
                       IF i <= Len(fields) THEN fields[i] ELSE <<>>

\* C5: the empty payload yields a preview with zero columns and zero rows.
C5_AsClaimed ==
    (PreviewShown /\ content = <<>>) => (columnDefs = <<>> /\ rowData = <<>>)

BrowserStays == activePage = "datasets" /\ activePage' = "datasets"

\* C6: a change of the selected type triggers exactly one list fetch, for the
\* new type, and once the list of the selected type is displayed no list of a
\* previously selected type replaces it, whatever the order of the responses.
C6_AsClaimed ==
    [][BrowserStays =>
          /\ datasetType' # datasetType => ev'.sent = <<ListReq(datasetType')>>
          /\ (datasetsOf = datasetType /\ datasetType' = datasetType) =>
                datasetsOf' = datasetType']_vars

\* C7: a delete that resolves triggers exactly one re-fetch of the list, for
\* the type selected when it resolves.
C7_AsClaimed ==
    (ev.op = "DeleteSettle" /\ ev.sent # <<>>) => ev.sent = <<ListReq(datasetType)>>

\* C8: the control that started a backend call is disabled until the call
\* settles, so the View and the Delete button of an entry never have two
\* requests of their own in flight.
C8_AsClaimed ==
    \A req \in DOMAIN pending : req.kind = "file" => pending[req] <= 1

\* C9: right after the selected recipe changes, the form values are empty.
C9_AsClaimed == ev.op = "SelectRecipe" => formData = EmptyForm

\* C10: a preview, open-raw or delete request started from a displayed entry
\* targets the bucket under which the entry's filename was listed.
C10_AsClaimed ==
    ev.op \in {"fetchCSV", "openFullScreen", "deleteDataset"} =>
        ev.sent[1].type = datasetsOf

\* The selects of the recipe are untouched and every other field is filled in.
SelectsUntouched ==
    /\ \E i \in 1..Len(fieldsNow) : fieldsNow[i].type = "select"
    /\ \A i \in 1..Len(fieldsNow) :
          IF fieldsNow[i].type = "select"
          THEN formData[fieldsNow[i].name] = Undefined
          ELSE ~AbsentAt(i)

\* C11: a submit made with every other field filled in and each select still
\* showing its first option passes validation and sends the request, with the
\* displayed option as the value of the select's entry.
C11_AsClaimed ==
    (ev.op = "handleSubmit" /\ SelectsUntouched) =>
        /\ Len(ev.sent) = 1
        /\ \A i \in 1..Len(fieldsNow) :
              fieldsNow[i].type = "select" =>
                  ev.sent[1].body[i].value = SelectShown(fieldsNow[i])

====
